---- MODULE Spec2Model ----
(***************************************************************************)
(* The Azure onboarding sample of gen3sdk-python                           *)
(* (src/gen3/samples/azure_sample.py, azure_blob_storage_client.py) and    *)
(* the SDK calls it makes (src/gen3/file.py), as a state machine.          *)
(*                                                                         *)
(* Python strings that the code takes apart (URLs, blob names, decimal and *)
(* hexadecimal numerals) are sequences of one-character strings.  Python's *)
(* None is the string "None".                                              *)
(***************************************************************************)
EXTENDS Naturals, Sequences, FiniteSets

\* ------------------------------------------------------------------ bounds

\* Longest blob name (in characters) the normaliser is tried on.
MaxNameLen == 3
\* Largest blob size the normaliser is tried on.
MaxSize == 12
\* Most blobs in the container an onboarding run lists.
MaxBlobs == 3

\* --------------------------------------------------------- Python values

None == "None"

DigitChars == <<"0", "1", "2", "3", "4", "5", "6", "7", "8", "9">>

HexChars ==
    <<"0", "1", "2", "3", "4", "5", "6", "7", "8", "9", "a", "b", "c", "d", "e", "f">>

\* str(n) of a non-negative int: its decimal numeral.
RECURSIVE str(_)
str(n) ==
    IF n < 10 THEN <<DigitChars[n + 1]>>
    ELSE str(n \div 10) \o <<DigitChars[(n % 10) + 1]>>

DigitValue(c) == CHOOSE d \in 0..9 : DigitChars[d + 1] = c

\* int(s) of a decimal numeral.
RECURSIVE int(_)
int(s) ==
    IF Len(s) = 0 THEN 0
    ELSE 10 * int(SubSeq(s, 1, Len(s) - 1)) + DigitValue(s[Len(s)])

\* bytes.hex(): two lowercase hexadecimal digits per byte.
RECURSIVE hex(_)
hex(bs) ==
    IF Len(bs) = 0 THEN <<>>
    ELSE <<HexChars[(bs[1] \div 16) + 1], HexChars[(bs[1] % 16) + 1]>> \o hex(Tail(bs))

\* s.find(c, from): the first position >= from holding c, 0 when there is none
\* (positions are 1-based; Python's -1 is 0 here).
Find(s, c, from) ==
    IF \E k \in from..Len(s) : s[k] = c
    THEN CHOOSE k \in from..Len(s) : s[k] = c /\ \A j \in from..(k - 1) : s[j] # c
    ELSE 0

\* s.rfind(c): the last position holding c, 0 when there is none.
RFind(s, c) ==
    IF \E k \in 1..Len(s) : s[k] = c
    THEN CHOOSE k \in 1..Len(s) : s[k] = c /\ \A j \in (k + 1)..Len(s) : s[j] # c
    ELSE 0

\* s[a:b] with 1-based inclusive bounds; empty when a > b.
Slice(s, a, b) == IF a > b THEN <<>> ELSE SubSeq(s, a, b)

\* ------------------------------------------------- urllib.parse, as called

UpperChars == {"H", "A"}

lower_char(c) == IF c = "H" THEN "h" ELSE IF c = "A" THEN "a" ELSE c

lower(s) == [k \in 1..Len(s) |-> lower_char(s[k])]

AlphaChars ==
    {"a", "b", "c", "e", "f", "h", "i", "l", "n", "o", "p", "r", "s", "t", "x", "z"}
        \cup UpperChars

\* urllib.parse.scheme_chars
scheme_chars == AlphaChars \cup {DigitChars[k] : k \in 1..10} \cup {"+", "-", "."}

\* urllib.parse.uses_params (the schemes this model's URLs can carry)
uses_params == {<<>>, <<"f", "t", "p">>, <<"h", "t", "t", "p">>, <<"h", "t", "t", "p", "s">>}

\* urllib.parse.uses_netloc (likewise); "az" is not one of them
uses_netloc == {<<>>, <<"f", "t", "p">>, <<"h", "t", "t", "p">>, <<"h", "t", "t", "p", "s">>}

\* The first position >= from holding one of "/?#", Len(s)+1 when there is none
\* (urllib.parse._splitnetloc).
NetlocEnd(s, from) ==
    IF \E k \in from..Len(s) : s[k] \in {"/", "?", "#"}
    THEN CHOOSE k \in from..Len(s) :
            s[k] \in {"/", "?", "#"} /\ \A j \in from..(k - 1) : s[j] \notin {"/", "?", "#"}
    ELSE Len(s) + 1

\* urllib.parse._splitparams
splitparams(url) ==
    LET i == IF Find(url, "/", 1) # 0
             THEN Find(url, ";", RFind(url, "/"))
             ELSE Find(url, ";", 1)
    IN  IF i = 0 THEN [path |-> url, params |-> <<>>]
        ELSE [path |-> Slice(url, 1, i - 1), params |-> Slice(url, i + 1, Len(url))]

\* urlsplit, step 1: a leading "<scheme>:" is taken off and lowercased.
split_scheme(url) ==
    LET c == Find(url, ":", 1)
    IN  IF /\ c > 1
           /\ url[1] \in AlphaChars
           /\ \A k \in 1..(c - 1) : url[k] \in scheme_chars
        THEN [scheme |-> lower(Slice(url, 1, c - 1)), rest |-> Slice(url, c + 1, Len(url))]
        ELSE [scheme |-> <<>>, rest |-> url]

\* urlsplit, step 2: after "//" the netloc runs to the first of "/?#".
split_netloc(url) ==
    LET d == NetlocEnd(url, 3)
    IN  IF Slice(url, 1, 2) = <<"/", "/">>
        THEN [netloc |-> Slice(url, 3, d - 1), rest |-> Slice(url, d, Len(url))]
        ELSE [netloc |-> <<>>, rest |-> url]

\* url.split(sep, 1) when sep is in url: what precedes the first sep, and what follows it.
split_first(url, sep) ==
    LET k == Find(url, sep, 1)
    IN  IF k # 0
        THEN [head |-> Slice(url, 1, k - 1), tail |-> Slice(url, k + 1, Len(url))]
        ELSE [head |-> url, tail |-> <<>>]

\* urllib.parse.urlsplit
urlsplit(url) ==
    LET s == split_scheme(url)
        n == split_netloc(s.rest)
        f == split_first(n.rest, "#")
        q == split_first(f.head, "?")
    IN  [scheme |-> s.scheme, netloc |-> n.netloc, path |-> q.head,
         query |-> q.tail, fragment |-> f.tail]

\* urllib.parse.urlparse
urlparse(url) ==
    LET s == urlsplit(url)
        sp == IF s.scheme \in uses_params /\ Find(s.path, ";", 1) # 0
              THEN splitparams(s.path)
              ELSE [path |-> s.path, params |-> <<>>]
    IN  [scheme |-> s.scheme, netloc |-> s.netloc, path |-> sp.path,
         params |-> sp.params, query |-> s.query, fragment |-> s.fragment]

\* urllib.parse.urlunsplit
urlunsplit(scheme, netloc, path, query, fragment) ==
    LET u1 == IF \/ netloc # <<>>
                 \/ (scheme # <<>> /\ scheme \in uses_netloc
                        /\ Slice(path, 1, 2) # <<"/", "/">>)
              THEN <<"/", "/">> \o netloc
                     \o (IF path # <<>> /\ path[1] # "/" THEN <<"/">> ELSE <<>>) \o path
              ELSE path
        u2 == IF scheme # <<>> THEN scheme \o <<":">> \o u1 ELSE u1
        u3 == IF query # <<>> THEN u2 \o <<"?">> \o query ELSE u2
    IN  IF fragment # <<>> THEN u3 \o <<"#">> \o fragment ELSE u3

\* urllib.parse.urlunparse
urlunparse(p) ==
    urlunsplit(p.scheme, p.netloc,
               IF p.params # <<>> THEN p.path \o <<";">> \o p.params ELSE p.path,
               p.query, p.fragment)

\* ---------------------------------------------- AzureBlobStorageClient

\* AzureBlobStorageClient._convert_url_to_scheme
_convert_url_to_scheme(url, scheme) ==
    LET parsed_url == urlparse(url)
    IN  urlunparse([scheme |-> scheme, netloc |-> parsed_url.netloc,
                    path |-> parsed_url.path, params |-> parsed_url.params,
                    query |-> parsed_url.query, fragment |-> parsed_url.fragment])

\* One row of prepare_blob_index_metadata's loop.
blob_row(blob, container_url, desired_scheme, commons_authz, commons_acl) ==
    LET url == container_url \o <<"/">> \o blob.name
    IN  [guid |-> None,
         md5 |-> hex(blob.content_md5),
         size |-> str(blob.size),
         authz |-> commons_authz,
         acl |-> commons_acl,
         urls |-> _convert_url_to_scheme(url, desired_scheme),
         filename |-> blob.name]

\* AzureBlobStorageClient.prepare_blob_index_metadata
RECURSIVE prepare_blob_index_metadata(_, _, _, _, _)
prepare_blob_index_metadata(blobs, container_url, desired_scheme, authz, acl) ==
    IF Len(blobs) = 0 THEN <<>>
    ELSE <<blob_row(blobs[1], container_url, desired_scheme, authz, acl)>>
            \o prepare_blob_index_metadata(Tail(blobs), container_url, desired_scheme,
                                           authz, acl)

\* os.path.basename
basename(p) == Slice(p, RFind(p, "/") + 1, Len(p))

\* ------------------------------------------------------- configuration

\* azure_sample.COMMONS_URL
COMMONS_URL == "https://mycommons.azurefd.net"
\* azure_sample.PROJECT_CODE
PROJECT_CODE == "P1"
\* azure_sample.DATA_TYPE
DATA_TYPE == "image"
\* AzureBlobStorageClient._commons_authz and _commons_acl, from the environment
commons_authz == "/programs"
commons_acl == "*"

\* container_client.url of the configured container
container_url ==
    <<"h", "t", "t", "p", "s", ":", "/", "/", "a", "c", "c", "t", "/",
      "c", "o", "n", "t", "a", "i", "n", "e", "r">>

\* desired_scheme="az" (get_blobs_metadata)
az == <<"a", "z">>

\* ------------------------------------------------ the remote services

\* Identifiers the index service can hand out; it never hands one out twice.
DidNames == <<"did-1", "did-2", "did-3", "did-4", "did-5", "did-6", "did-7", "did-8">>
DIDs == {DidNames[k] : k \in 1..MaxBlobs}

\* Node identifiers of the graph service, in the order it assigns them.
NodeNames ==
    <<"node-1", "node-2", "node-3", "node-4", "node-5", "node-6", "node-7", "node-8",
      "node-9", "node-10", "node-11", "node-12", "node-13", "node-14", "node-15", "node-16">>

\* The k-th blob the storage backend can hold.
Blob(k) ==
    [name |-> <<"d", "/", "f", DigitChars[k + 1], ".", "t", "x", "t">>,
     size |-> 5 * k,
     content_md5 |-> <<k, 255 - k>>]

\* The containers an onboarding run can face: any of the blobs, in the
\* backend's listing order.
RECURSIVE ListingOf(_, _)
ListingOf(S, k) ==
    IF k > MaxBlobs THEN <<>>
    ELSE (IF k \in S THEN <<Blob(k)>> ELSE <<>>) \o ListingOf(S, k + 1)

Containers == {ListingOf(S, 1) : S \in SUBSET (1..MaxBlobs)}

\* ------------------------------------------------------------- state

VARIABLES
    container,       \* the blobs of the storage container, in listing order
    rows,            \* blobs_metadata: the onboarding records
    pc,              \* where the run is
    i,               \* the record the current stage's loop is at (1-based)
    trace,           \* every remote call issued, with its response once it came
    inflight,        \* positions in trace of the calls not yet answered
    error,           \* the exception that ended the run, NoExc if none
    presigned_urls,  \* get_presigned_urls' list
    emitted,         \* the URL lists printed at the end of the run
    stdout,          \* diagnostics printed
    indexd,          \* the records the index service holds
    sheepdog,        \* the nodes the graph service holds
    locals,          \* submit_metadata_sheepdog's submitter_id and node id
    call,            \* the last call of a library function made on its own
    pool             \* the worker pool of a get_hashes call in progress

vars ==
    <<container, rows, pc, i, trace, inflight, error, presigned_urls, emitted,
      stdout, indexd, sheepdog, locals, call, pool>>

NoExc == "NoExc"

\* No library function has been called on its own.
NoCall == [fn |-> "none"]

\* No worker pool exists.
NoPool == [size |-> 0]

NoLocals == [submitter_id |-> None, core_metadata_node_id |-> None]

Event(op, idx, req) ==
    [op |-> op, idx |-> idx, req |-> req, status |-> "pending", val |-> None]

\* The call just issued is appended to the trace and is in flight.
Issue(op, idx, req) ==
    /\ trace' = Append(trace, Event(op, idx, req))
    /\ inflight' = inflight \cup {Len(trace) + 1}

\* The response to the last call issued.
Answer(status, val) ==
    /\ trace' = [trace EXCEPT ![Len(trace)] = [@ EXCEPT !.status = status, !.val = val]]
    /\ inflight' = inflight \ {Len(trace)}

\* An uncaught exception ends the run.
Raise(exc) ==
    /\ pc' = "error"
    /\ error' = exc

\* onboard_data_files_in_blob with get_presigned_urls called before
\* submit_metadata_to_graph.
onboard_next_swapped(stage) ==
    CASE stage = "list" -> "index"
      [] stage = "index" -> "presign"
      [] stage = "presign" -> "graph"
      [] stage = "graph" -> "done"

\* onboard_data_files_in_blob: the stage that follows each stage.
onboard_next(stage) ==
    CASE stage = "list" -> "index"
      [] stage = "index" -> "graph"
      [] stage = "graph" -> "presign"
      [] stage = "presign" -> "done"

\* Entering a stage's for loop over n records: its first record, or, the
\* loop being empty, the stage after it.
RECURSIVE EnterStage(_, _)
EnterStage(stage, n) ==
    IF stage = "done" \/ n > 0 THEN [pc |-> stage, i |-> 1]
    ELSE EnterStage(onboard_next(stage), n)

\* The end of a loop body at record k of n: the next record, or the next stage.
AfterItem(stage, k, n) ==
    IF k < n THEN [pc |-> stage, i |-> k + 1] ELSE EnterStage(onboard_next(stage), n)

\* Where the run goes; reaching "done" prints the list of URLs.
Goto(at, urls) ==
    /\ pc' = at.pc
    /\ i' = at.i
    /\ emitted' = IF at.pc = "done" THEN Append(emitted, urls) ELSE emitted

\* ------------------------------------------------------ the registrar

ERROR_MESSAGE ==
    "ERROR ocurred when trying to create the record, you probably don't have access."

UNHEALTHY_MESSAGE == "indexd service is unhealthy"

\* The keyword arguments create_index_azure gives index.create_record.
create_record_kwargs(file_md5, file_size, file_name, url, authz, acl) ==
    [hashes |-> [md5 |-> file_md5], file_name |-> file_name, size |-> file_size,
     acl |-> <<acl>>, urls |-> <<url>>, authz |-> <<authz>>]

\* create_index_azure, from the health probe's answer and create_record's
\* outcome: the exception it raises, the value it returns and what it prints.
\* An index response is modelled by its "did".  When create_record raised,
\* `response` was never bound and `return response` raises UnboundLocalError.
create_index_azure(healthy, outcome) ==
    IF ~healthy
    THEN [exc |-> NoExc, ret |-> None, out |-> <<UNHEALTHY_MESSAGE>>]
    ELSE IF outcome.raised
    THEN [exc |-> "UnboundLocalError", ret |-> None, out |-> <<ERROR_MESSAGE>>]
    ELSE [exc |-> NoExc, ret |-> outcome.response, out |-> <<>>]

\* index_files_in_blob_storage's loop body if it went on to the next record
\* whenever create_index_azure raised or returned None, leaving the guid null.
index_body_continue(row, r) ==
    IF r.exc # NoExc \/ r.ret = None THEN [exc |-> NoExc, row |-> row]
    ELSE [exc |-> NoExc, row |-> [row EXCEPT !.guid = r.ret]]

\* index_files_in_blob_storage's loop body if it also replaced the record's
\* filename by its base name.
index_body_basename(row, r) ==
    IF r.exc # NoExc THEN [exc |-> r.exc, row |-> row]
    ELSE IF r.ret = None THEN [exc |-> "TypeError", row |-> row]
    ELSE [exc |-> NoExc,
          row |-> [row EXCEPT !.guid = r.ret, !.filename = basename(row.filename)]]

\* The body of index_files_in_blob_storage's loop, from create_index_azure's
\* result r: response_json["did"] on None raises TypeError; otherwise the did
\* is stored in the record.  No exception is caught here.
index_body(row, r) ==
    IF r.exc # NoExc THEN [exc |-> r.exc, row |-> row]
    ELSE IF r.ret = None THEN [exc |-> "TypeError", row |-> row]
    ELSE [exc |-> NoExc, row |-> [row EXCEPT !.guid = r.ret]]

\* ------------------------------------------------- the graph submitter

\* What _simple_generate_string_data can return (random tokens).
SubmitterIds == {"tokA", "tokB"}

\* os.path.splitext(p)[1].replace(".", "")
file_extension(p) ==
    LET b == basename(p)
        d == RFind(b, ".")
        ext == IF d = 0 \/ \A k \in 1..(d - 1) : b[k] = "." THEN <<>>
               ELSE Slice(b, d, Len(b))
    IN  SelectSeq(ext, LAMBDA c : c # ".")

_create_coremetadata_collection(submitter_id, project_code) ==
    [projects |-> [code |-> project_code],
     type |-> "core_metadata_collection",
     submitter_id |-> submitter_id]

\* _create_slide_image_json with the node id and the object id exchanged.
_create_slide_image_json_swapped(core_metadata_node_id, submitter_id, file_name, md5_value, file_size, data_format, data_type, object_id) ==
    [data_category |-> "Slide Image",
     md5sum |-> md5_value,
     core_metadata_collections |->
        [node_id |-> object_id, submitter_id |-> submitter_id],
     submitter_id |-> submitter_id,
     type |-> "slide_image",
     file_name |-> file_name,
     data_format |-> data_format,
     file_size |-> file_size,
     data_type |-> data_type,
     object_id |-> core_metadata_node_id]

_create_slide_image_json(core_metadata_node_id, submitter_id, file_name, md5_value, file_size, data_format, data_type, object_id) ==
    [data_category |-> "Slide Image",
     md5sum |-> md5_value,
     core_metadata_collections |->
        [node_id |-> core_metadata_node_id, submitter_id |-> submitter_id],
     submitter_id |-> submitter_id,
     type |-> "slide_image",
     file_name |-> file_name,
     data_format |-> data_format,
     file_size |-> file_size,
     data_type |-> data_type,
     object_id |-> object_id]

\* submit_metadata_to_graph's loop if its body were wrapped in a try that
\* logs the exception and goes on.
submit_metadata_to_graph_swallow(exc) == NoExc

\* What submit_metadata_to_graph's loop does with an exception raised inside
\* submit_metadata_sheepdog: there is no try, the exception leaves the loop.
submit_metadata_to_graph_except(exc) == exc

\* -------------------------------------------------- the URL resolver

\* Gen3File.get_presigned_url's request URL if the query parameter were
\* appended whatever the protocol.
api_url_always(endpoint, guid, protocol) ==
    <<endpoint, "/user/data/download/", guid, "?protocol=", protocol>>

\* Gen3File.get_presigned_url's request URL.
api_url(endpoint, guid, protocol) ==
    <<endpoint, "/user/data/download/", guid>>
        \o (IF protocol # None /\ protocol # "" THEN <<"?protocol=", protocol>> ELSE <<>>)

\* What the access broker can answer: a JSON body, or text that is not JSON.
BrokerOutputs ==
    {[is_json |-> TRUE, text |-> "{url}", data |-> "https://signed"],
     [is_json |-> FALSE, text |-> "error page", data |-> None]}

\* Gen3File.get_presigned_url, from the response text: the parsed JSON, or
\* the text itself when json.loads raises.
Gen3File_get_presigned_url(output) ==
    IF output.is_json THEN output.data ELSE output.text

\* get_presigned_url if its return value were built from the broker's answer.
get_presigned_url_signed(node_guid, json_result) ==
    <<COMMONS_URL, "/files/", json_result>>

\* azure_sample.get_presigned_url's return value: the page link; the broker's
\* answer (json_result) is logged only.
get_presigned_url(node_guid, json_result) ==
    <<COMMONS_URL, "/files/", node_guid>>

\* get_presigned_urls' loop if its body were wrapped in a try that logs the
\* exception and goes on.
get_presigned_urls_swallow(exc) == NoExc

\* What get_presigned_urls' loop does with an exception raised inside
\* get_presigned_url: there is no try, the exception leaves the loop.
get_presigned_urls_except(exc) == exc

\* presigned_urls.insert(0, presigned_url)
append_url_front(urls, presigned_url) == <<presigned_url>> \o urls

\* presigned_urls.append(presigned_url)
append_url(urls, presigned_url) == Append(urls, presigned_url)

\* ---------------------------------------------------------- the run

Init ==
    /\ container \in Containers
    /\ rows = <<>>
    /\ pc = "start"
    /\ i = 0
    /\ trace = <<>>
    /\ inflight = {}
    /\ error = NoExc
    /\ presigned_urls = <<>>
    /\ emitted = <<>>
    /\ stdout = <<>>
    /\ indexd = {}
    /\ sheepdog = <<>>
    /\ locals = NoLocals
    /\ call = NoCall
    /\ pool = NoPool

\* onboard_data_files_in_blob starts: get_blobs_metadata builds the client and
\* the lazy blob listing.
onboard_data_files_in_blob ==
    /\ pc = "start"
    /\ pc' = "list"
    /\ UNCHANGED <<pool, call, container, rows, i, trace, inflight, error, presigned_urls,
                   emitted, stdout, indexd, sheepdog, locals>>

\* prepare_blob_index_metadata's loop asks the listing for its next blob.
list_blobs_call ==
    /\ pc = "list"
    /\ Issue("list_blobs", Len(rows) + 1, [name_starts_with |-> None])
    /\ pc' = "list_wait"
    /\ UNCHANGED <<pool, call, container, rows, i, error, presigned_urls, emitted, stdout,
                   indexd, sheepdog, locals>>

\* The listing yields a blob: its row is appended.
list_blobs_item ==
    /\ pc = "list_wait"
    /\ Len(rows) < Len(container)
    /\ Answer("ok", "item")
    /\ rows' = Append(rows, blob_row(container[Len(rows) + 1], container_url, az,
                                      commons_authz, commons_acl))
    /\ pc' = "list"
    /\ UNCHANGED <<pool, call, container, i, error, presigned_urls, emitted, stdout, indexd,
                   sheepdog, locals>>

\* The listing is exhausted: get_blobs_metadata returns the rows and the run
\* goes on to index_files_in_blob_storage.
list_blobs_end ==
    /\ pc = "list_wait"
    /\ Len(rows) = Len(container)
    /\ Answer("ok", "end")
    /\ Goto(EnterStage(onboard_next("list"), Len(rows)), presigned_urls)
    /\ UNCHANGED <<pool, call, container, rows, error, presigned_urls, stdout, indexd,
                   sheepdog, locals>>

\* The storage backend fails: nothing catches it.
list_blobs_raise ==
    /\ pc = "list_wait"
    /\ Answer("raise", "StorageError")
    /\ Raise("StorageError")
    /\ UNCHANGED <<pool, call, container, rows, i, presigned_urls, emitted, stdout, indexd,
                   sheepdog, locals>>

\* index_files_in_blob_storage's loop body if the result were stored in the
\* first record of the list instead of the record of the iteration.
IndexItemDone_first(r) ==
    LET b == index_body(rows[i], r)
    IN  /\ stdout' = stdout \o r.out
        /\ rows' = [rows EXCEPT ![1] = b.row]
        /\ IF b.exc # NoExc
           THEN Raise(b.exc) /\ UNCHANGED <<i, emitted>>
           ELSE Goto(AfterItem("index", i, Len(rows)), presigned_urls) /\ UNCHANGED error

\* The end of index_files_in_blob_storage's loop body for record i, given
\* what create_index_azure did.
IndexItemDone(r) ==
    LET b == index_body(rows[i], r)
    IN  /\ stdout' = stdout \o r.out
        /\ rows' = [rows EXCEPT ![i] = b.row]
        /\ IF b.exc # NoExc
           THEN Raise(b.exc) /\ UNCHANGED <<i, emitted>>
           ELSE Goto(AfterItem("index", i, Len(rows)), presigned_urls) /\ UNCHANGED error

\* create_index_azure probes the index service.
is_healthy_call ==
    /\ pc = "index"
    /\ Issue("is_healthy", i, [endpoint |-> COMMONS_URL])
    /\ pc' = "healthy_wait"
    /\ UNCHANGED <<pool, call, container, rows, i, error, presigned_urls, emitted, stdout,
                   indexd, sheepdog, locals>>

\* The probe answers: healthy, create_index_azure goes on to create_record;
\* unhealthy, it prints and returns None to the loop.
is_healthy_return(healthy) ==
    /\ pc = "healthy_wait"
    /\ Answer("ok", IF healthy THEN "True" ELSE "False")
    /\ IF healthy
       THEN /\ pc' = "create"
            /\ UNCHANGED <<rows, i, error, emitted, stdout>>
       ELSE IndexItemDone(create_index_azure(FALSE, [raised |-> FALSE, response |-> None]))
    /\ UNCHANGED <<pool, call, container, presigned_urls, indexd, sheepdog, locals>>

create_record_call ==
    /\ pc = "create"
    /\ Issue("create_record", i,
             create_record_kwargs(rows[i].md5, int(rows[i].size), rows[i].filename,
                                  rows[i].urls, rows[i].authz, rows[i].acl))
    /\ pc' = "create_wait"
    /\ UNCHANGED <<pool, call, container, rows, i, error, presigned_urls, emitted, stdout,
                   indexd, sheepdog, locals>>

\* The index service creates the record under an identifier of its choice
\* that it has not used before.
create_record_ok(did) ==
    /\ pc = "create_wait"
    /\ did \notin {r.did : r \in indexd}
    /\ Answer("ok", did)
    /\ indexd' = indexd \cup {[did |-> did, record |-> trace[Len(trace)].req]}
    /\ IndexItemDone(create_index_azure(TRUE, [raised |-> FALSE, response |-> did]))
    /\ UNCHANGED <<pool, call, container, presigned_urls, sheepdog, locals>>

\* create_record raises (the service refuses or cannot be reached).
create_record_raise ==
    /\ pc = "create_wait"
    /\ Answer("raise", "HTTPError")
    /\ IndexItemDone(create_index_azure(TRUE, [raised |-> TRUE, response |-> None]))
    /\ UNCHANGED <<pool, call, container, presigned_urls, indexd, sheepdog, locals>>

\* The end of submit_metadata_to_graph's loop body for record i; exc is what
\* submit_metadata_sheepdog raised, NoExc if it returned.
GraphItemDone(exc) ==
    LET e == submit_metadata_to_graph_except(exc)
    IN  /\ locals' = NoLocals
        /\ IF e # NoExc
           THEN Raise(e) /\ UNCHANGED <<i, emitted>>
           ELSE Goto(AfterItem("graph", i, Len(rows)), presigned_urls) /\ UNCHANGED error

\* submit_metadata_sheepdog if it looked for a slide_image node of the guid
\* on the graph service first and submitted nothing when there is one.
submit_core_call_once(submitter_id) ==
    /\ pc = "graph"
    /\ IF \E n \in 1..Len(sheepdog) :
                /\ sheepdog[n].node.type = "slide_image"
                /\ sheepdog[n].node.object_id = rows[i].guid
       THEN /\ Goto(AfterItem("graph", i, Len(rows)), presigned_urls)
            /\ UNCHANGED <<trace, inflight, locals>>
       ELSE /\ locals' = [submitter_id |-> submitter_id, core_metadata_node_id |-> None]
            /\ Issue("submit_record", i,
                     _create_coremetadata_collection(submitter_id, PROJECT_CODE))
            /\ pc' = "core_wait"
            /\ UNCHANGED <<i, emitted>>
    /\ UNCHANGED <<pool, call, container, rows, error, presigned_urls, stdout, indexd, sheepdog>>

\* submit_metadata_sheepdog draws a submitter token and submits the
\* core_metadata_collection node.
submit_core_call(submitter_id) ==
    /\ pc = "graph"
    /\ locals' = [submitter_id |-> submitter_id, core_metadata_node_id |-> None]
    /\ Issue("submit_record", i,
             _create_coremetadata_collection(submitter_id, PROJECT_CODE))
    /\ pc' = "core_wait"
    /\ UNCHANGED <<pool, call, container, rows, i, error, presigned_urls, emitted, stdout,
                   indexd, sheepdog>>

\* The graph service stores the node and answers with the id it gave it.
submit_core_ok ==
    LET id == NodeNames[Len(sheepdog) + 1]
    IN  /\ pc = "core_wait"
        /\ Answer("ok", id)
        /\ sheepdog' = Append(sheepdog, [id |-> id, node |-> trace[Len(trace)].req])
        /\ locals' = [locals EXCEPT !.core_metadata_node_id = id]
        /\ pc' = "data"
        /\ UNCHANGED <<pool, call, container, rows, i, error, presigned_urls, emitted, stdout,
                       indexd>>

submit_core_raise ==
    /\ pc = "core_wait"
    /\ Answer("raise", "HTTPError")
    /\ GraphItemDone("HTTPError")
    /\ UNCHANGED <<pool, call, container, rows, presigned_urls, stdout, indexd, sheepdog>>

\* submit_metadata_sheepdog submits the slide_image node.
submit_data_call ==
    /\ pc = "data"
    /\ Issue("submit_record", i,
             _create_slide_image_json(locals.core_metadata_node_id, locals.submitter_id,
                                      basename(rows[i].filename), rows[i].md5,
                                      int(rows[i].size),
                                      file_extension(basename(rows[i].filename)),
                                      DATA_TYPE, rows[i].guid))
    /\ pc' = "data_wait"
    /\ UNCHANGED <<pool, call, container, rows, i, error, presigned_urls, emitted, stdout,
                   indexd, sheepdog, locals>>

submit_data_ok ==
    LET id == NodeNames[Len(sheepdog) + 1]
    IN  /\ pc = "data_wait"
        /\ Answer("ok", id)
        /\ sheepdog' = Append(sheepdog, [id |-> id, node |-> trace[Len(trace)].req])
        /\ GraphItemDone(NoExc)
        /\ UNCHANGED <<pool, call, container, rows, presigned_urls, stdout, indexd>>

\* submit_metadata_sheepdog if a failed submission of the slide_image node
\* were compensated by deleting the core_metadata_collection node.
submit_data_raise_rollback ==
    /\ pc = "data_wait"
    /\ Answer("raise", "HTTPError")
    /\ GraphItemDone("HTTPError")
    /\ sheepdog' = SubSeq(sheepdog, 1, Len(sheepdog) - 1)
    /\ UNCHANGED <<pool, call, container, rows, presigned_urls, stdout, indexd>>

submit_data_raise ==
    /\ pc = "data_wait"
    /\ Answer("raise", "HTTPError")
    /\ GraphItemDone("HTTPError")
    /\ UNCHANGED <<pool, call, container, rows, presigned_urls, stdout, indexd, sheepdog>>

\* get_presigned_url asks the access broker (Gen3File.get_presigned_url).
presign_call ==
    /\ pc = "presign"
    /\ Issue("get_presigned_url", i,
             [guid |-> rows[i].guid, protocol |-> "az",
              api_url |-> api_url(COMMONS_URL, rows[i].guid, "az")])
    /\ pc' = "presign_wait"
    /\ UNCHANGED <<pool, call, container, rows, i, error, presigned_urls, emitted, stdout,
                   indexd, sheepdog, locals>>

\* The broker answers; whatever it answers, the page link is appended.
presign_return(output) ==
    LET json_result == Gen3File_get_presigned_url(output)
        urls == append_url(presigned_urls, get_presigned_url(rows[i].guid, json_result))
    IN  /\ pc = "presign_wait"
        /\ Answer("ok", output.text)
        /\ presigned_urls' = urls
        /\ Goto(AfterItem("presign", i, Len(rows)), urls)
        /\ UNCHANGED <<pool, call, container, rows, error, stdout, indexd, sheepdog, locals>>

\* The request to the broker raises (requests.get fails).
presign_raise ==
    LET e == get_presigned_urls_except("ConnectionError")
    IN  /\ pc = "presign_wait"
        /\ Answer("raise", "ConnectionError")
        /\ IF e # NoExc
           THEN Raise(e) /\ UNCHANGED <<i, emitted>>
           ELSE Goto(AfterItem("presign", i, Len(rows)), presigned_urls) /\ UNCHANGED error
        /\ UNCHANGED <<pool, call, container, rows, presigned_urls, stdout, indexd, sheepdog, locals>>

Next ==
    \/ onboard_data_files_in_blob
    \/ list_blobs_call
    \/ list_blobs_item
    \/ list_blobs_end
    \/ list_blobs_raise
    \/ is_healthy_call
    \/ \E healthy \in BOOLEAN : is_healthy_return(healthy)
    \/ create_record_call
    \/ \E did \in DIDs : create_record_ok(did)
    \/ create_record_raise
    \/ \E submitter_id \in SubmitterIds : submit_core_call(submitter_id)
    \/ submit_core_ok
    \/ submit_core_raise
    \/ submit_data_call
    \/ submit_data_ok
    \/ submit_data_raise
    \/ presign_call
    \/ \E output \in BrokerOutputs : presign_return(output)
    \/ presign_raise

Spec == Init /\ [][Next]_vars

\* ------------------------------------------- the normaliser on its own

\* Characters blob names are built from: a letter and the URL delimiters.
NameChars == {"f", "/", "?", "#", ";"}

RECURSIVE NamesOfLen(_)
NamesOfLen(n) ==
    IF n = 0 THEN {<<>>}
    ELSE {Append(s, c) : s \in NamesOfLen(n - 1), c \in NameChars}

\* "blob/file.txt"
ExampleName == <<"b", "l", "o", "b", "/", "f", "i", "l", "e", ".", "t", "x", "t">>

NormNames == UNION {NamesOfLen(n) : n \in 1..MaxNameLen} \cup {ExampleName}

\* Content hashes as the backend supplies them (bytes).
Md5s == {<<10, 255>>, <<0, 171>>}

NormBlobs == [name : NormNames, size : 0..MaxSize, content_md5 : Md5s]

\* prepare_blob_index_metadata is applied to one blob of any name, size and
\* hash, or to one of the containers of the onboarding run.
InitNorm ==
    /\ container \in {<<b>> : b \in NormBlobs} \cup Containers
    /\ rows = <<>>
    /\ pc = "normalize"
    /\ i = 0
    /\ trace = <<>>
    /\ inflight = {}
    /\ error = NoExc
    /\ presigned_urls = <<>>
    /\ emitted = <<>>
    /\ stdout = <<>>
    /\ indexd = {}
    /\ sheepdog = <<>>
    /\ locals = NoLocals
    /\ call = NoCall
    /\ pool = NoPool

normalize ==
    /\ pc = "normalize"
    /\ rows' = prepare_blob_index_metadata(container, container_url, az,
                                           commons_authz, commons_acl)
    /\ pc' = "normalized"
    /\ UNCHANGED <<pool, call, container, i, trace, inflight, error, presigned_urls, emitted,
                   stdout, indexd, sheepdog, locals>>

NextNorm == normalize

SpecNorm == InitNorm /\ [][NextNorm]_vars

\* ------------------------------ the graph submitter called twice

\* An indexed record of the k-th blob.
indexed_row(k, did) ==
    [blob_row(Blob(k), container_url, az, commons_authz, commons_acl) EXCEPT !.guid = did]

\* submit_metadata_to_graph is given the record of one indexed blob twice:
\* submit_metadata_sheepdog is called twice with the same file name, hash,
\* size and guid.
InitResubmit ==
    \E k \in 1..MaxBlobs, did \in DIDs :
      \E row \in {indexed_row(k, did)} :
        /\ container = <<Blob(k)>>
        /\ rows = <<row, row>>
        /\ pc = "graph"
        /\ i = 1
        /\ trace = <<>>
        /\ inflight = {}
        /\ error = NoExc
        /\ presigned_urls = <<>>
        /\ emitted = <<>>
        /\ stdout = <<>>
        /\ indexd = {[did |-> did,
                      record |-> create_record_kwargs(row.md5, int(row.size), row.filename,
                                                      row.urls, row.authz, row.acl)]}
        /\ sheepdog = <<>>
        /\ locals = NoLocals
        /\ call = NoCall
        /\ pool = NoPool
    /\ pool = NoPool

NextResubmit ==
    \/ \E submitter_id \in SubmitterIds : submit_core_call(submitter_id)
    \/ submit_core_ok
    \/ submit_core_raise
    \/ submit_data_call
    \/ submit_data_ok
    \/ submit_data_raise

SpecResubmit == InitResubmit /\ [][NextResubmit]_vars

\* ------------------------------------- library functions on their own

\* The protocols a caller can give Gen3File.get_presigned_url; None is the
\* default.
Protocols == {None, "", "az", "s3", "gs"}

\* Response bodies of the access broker with what json.loads makes of them:
\* a JSON object, the JSON null, a JSON string, text that is not JSON and the
\* empty body.
ResponseBodies ==
    BrokerOutputs \cup
    {[is_json |-> TRUE, text |-> "null", data |-> None],
     [is_json |-> TRUE, text |-> "'s'", data |-> "s"],
     [is_json |-> FALSE, text |-> "", data |-> None]}

\* No call has been made yet; each behaviour makes one call.
InitCalls ==
    /\ container = <<>>
    /\ rows = <<>>
    /\ pc = "idle"
    /\ i = 0
    /\ trace = <<>>
    /\ inflight = {}
    /\ error = NoExc
    /\ presigned_urls = <<>>
    /\ emitted = <<>>
    /\ stdout = <<>>
    /\ indexd = {}
    /\ sheepdog = <<>>
    /\ locals = NoLocals
    /\ call = NoCall
    /\ pool = NoPool

\* Gen3File(endpoint=COMMONS_URL, ...).get_presigned_url(guid, protocol), the
\* broker answering with the body output.text.
call_Gen3File_get_presigned_url ==
    \E guid \in DIDs, protocol \in Protocols, output \in ResponseBodies :
        /\ pc = "idle"
        /\ call' = [fn |-> "Gen3File.get_presigned_url",
                    guid |-> guid,
                    protocol |-> protocol,
                    requests |-> <<api_url(COMMONS_URL, guid, protocol)>>,
                    output |-> output,
                    exc |-> NoExc,
                    ret |-> Gen3File_get_presigned_url(output)]
        /\ pc' = "returned"
        /\ UNCHANGED <<pool, container, rows, i, trace, inflight, error, presigned_urls,
                       emitted, stdout, indexd, sheepdog, locals>>

\* hash.CHUNK_SIZE, scaled down (4 * 1024 in the source).
CHUNK_SIZE == 2

\* The longest file hashed and the longest list of algorithm names requested.
MaxFileLen == 3
MaxHashTypes == 2

\* Attributes of hashlib that construct a hash object when called without
\* arguments, with a digest of fixed length.
hashlib_fixed == {"md5", "sha256"}

\* Constructors of the extendable-output algorithms: hexdigest() needs a length.
hashlib_xof == {"shake_128"}

\* Attributes of hashlib that are no such constructor: hashlib.new needs the
\* name as argument, hashlib.algorithms_available is a set.
hashlib_other == {"new", "algorithms_available"}

\* Names requested of Gen3Hash; "crc32" is no attribute of hashlib.
HashTypes == hashlib_fixed \cup hashlib_xof \cup hashlib_other \cup {"crc32"}

\* The digest of an algorithm over the bytes fed to it.
hexdigest(hash_type, data) == <<hash_type, data>>

\* Python values returned by get_hash: None, or the dict {hash_type: digest}.
NoneValue == [type |-> "NoneType"]

dict1(key, value) == [type |-> "dict", key |-> key, value |-> value]

\* f.readinto(chunk): the number of bytes read at position pos.
readinto(content, pos) ==
    IF Len(content) - pos < CHUNK_SIZE THEN Len(content) - pos ELSE CHUNK_SIZE

\* get_hash's loop: the bytes given to hash.update, chunk after chunk, until
\* readinto reads nothing.
RECURSIVE read_chunks(_, _, _)
read_chunks(content, pos, fed) ==
    LET num == readinto(content, pos)
    IN  IF num = 0 THEN fed
        ELSE read_chunks(content, pos + num, fed \o SubSeq(content, pos + 1, pos + num))

\* Gen3Hash.get_hash over a file of the given content: the exception it
\* raises, the value it returns and what it logs.  getattr(hashlib, name)()
\* raises AttributeError, which is caught, for a name hashlib does not have,
\* and TypeError, which is not, for an attribute that cannot be called so.
get_hash(content, hash_type) ==
    IF hash_type \notin hashlib_fixed \cup hashlib_xof \cup hashlib_other
    THEN [exc |-> NoExc, ret |-> NoneValue, log |-> <<hash_type>>]
    ELSE IF hash_type \in hashlib_other \cup hashlib_xof
    THEN [exc |-> "TypeError", ret |-> NoneValue, log |-> <<>>]
    ELSE [exc |-> NoExc,
          ret |-> dict1(hash_type, hexdigest(hash_type, read_chunks(content, 0, <<>>))),
          log |-> <<>>]

\* pool.map(self.get_hash, hash_types): the results in the order of the
\* names, or the exception of the first name whose get_hash raised.
pool_map(content, hash_types) ==
    LET results == [k \in 1..Len(hash_types) |-> get_hash(content, hash_types[k])]
        failed == {k \in 1..Len(hash_types) : results[k].exc # NoExc}
    IN  IF failed # {}
        THEN [exc |-> results[CHOOSE k \in failed : \A l \in failed : k <= l].exc,
              ret |-> <<>>]
        ELSE [exc |-> NoExc, ret |-> [k \in 1..Len(hash_types) |-> results[k].ret]]

get_hashes(content, hash_types) == pool_map(content, hash_types)

RECURSIVE SeqsUpTo(_, _)
SeqsUpTo(S, n) ==
    IF n = 0 THEN {<<>>}
    ELSE SeqsUpTo(S, n - 1) \cup
         {Append(q, x) : q \in {r \in SeqsUpTo(S, n - 1) : Len(r) = n - 1}, x \in S}

\* File contents: bytes 0 and 1.
FileContents == SeqsUpTo({0, 1}, MaxFileLen)

\* Gen3Hash(file_path).get_hashes(hash_types) over a file of some content.
call_Gen3Hash_get_hashes ==
    \E content \in FileContents, hash_types \in SeqsUpTo(HashTypes, MaxHashTypes) :
        LET r == get_hashes(content, hash_types)
        IN  /\ pc = "idle"
            /\ call' = [fn |-> "Gen3Hash.get_hashes",
                        content |-> content,
                        hash_types |-> hash_types,
                        exc |-> r.exc,
                        ret |-> r.ret]
            /\ pc' = "returned"
            /\ UNCHANGED <<pool, container, rows, i, trace, inflight, error,
                           presigned_urls, emitted, stdout, indexd, sheepdog, locals>>

\* The environment variable COMMONS_AUTHZ: not set, set to the empty string,
\* or set to a scope.
Unset == "Unset"

EnvAuthz == {Unset, "", "/programs/env"}

\* os.environ.get(name, default)
environ_get(value, default) == IF value = Unset THEN default ELSE value

\* azure_sample.INDEXD_AUTHZ, the default of the authz parameters.
INDEXD_AUTHZ(env) == environ_get(env, "/programs")

\* AzureBlobStorageClient.__init__: self._commons_authz.
init_commons_authz(arg, env) ==
    IF arg # None /\ arg # "" THEN arg ELSE environ_get(env, "/programs")

\* The authz argument of a registration call: left out, None, empty, a scope.
Omitted == "Omitted"

AuthzArgs == {Omitted, None, "", "/programs/p1"}

\* The value of a parameter with a default.
param(arg, default) == IF arg = Omitted THEN default ELSE arg

\* The keyword arguments add_index_and_metadata_azure gives
\* index.create_record: without authz when authz is None.
add_index_create_record_kwargs(file_md5, file_size, file_name, url, authz, acl) ==
    IF authz = None
    THEN [hashes |-> [md5 |-> file_md5], file_name |-> file_name, size |-> file_size,
          acl |-> <<acl>>, urls |-> <<url>>]
    ELSE create_record_kwargs(file_md5, file_size, file_name, url, authz, acl)

\* The row of the first blob under a client configured with an authz.
row_with_authz(authz) == blob_row(Blob(1), container_url, az, authz, commons_acl)

\* create_index_azure(md5, size, name, url[, authz]) called on its own, the
\* index service healthy and answering with a did.
call_create_index_azure ==
    \E authz \in AuthzArgs, env \in EnvAuthz, did \in DIDs,
       row \in {row_with_authz(commons_authz)} :
        LET r == create_index_azure(TRUE, [raised |-> FALSE, response |-> did])
        IN  /\ pc = "idle"
            /\ call' = [fn |-> "create_index_azure",
                        authz |-> authz,
                        env |-> env,
                        requests |->
                            <<[op |-> "is_healthy", req |-> <<>>],
                              [op |-> "create_record",
                               req |-> create_record_kwargs(
                                          row.md5, int(row.size), row.filename, row.urls,
                                          param(authz, INDEXD_AUTHZ(env)), commons_acl)]>>,
                        exc |-> r.exc,
                        ret |-> r.ret]
            /\ pc' = "returned"
            /\ UNCHANGED <<pool, container, rows, i, trace, inflight, error,
                           presigned_urls, emitted, stdout, indexd, sheepdog, locals>>

\* index_files_in_blob_storage(get_blobs_metadata()) for one blob: the client
\* is built without arguments, its authz comes from the environment.
call_index_files_in_blob_storage ==
    \E env \in EnvAuthz, did \in DIDs :
      \E row \in {row_with_authz(init_commons_authz(None, env))} :
        LET r == index_body(row, create_index_azure(TRUE, [raised |-> FALSE,
                                                            response |-> did]))
        IN  /\ pc = "idle"
            /\ call' = [fn |-> "index_files_in_blob_storage",
                        authz |-> Omitted,
                        env |-> env,
                        requests |->
                            <<[op |-> "is_healthy", req |-> <<>>],
                              [op |-> "create_record",
                               req |-> create_record_kwargs(
                                          row.md5, int(row.size), row.filename, row.urls,
                                          row.authz, row.acl)]>>,
                        exc |-> r.exc,
                        ret |-> r.row.guid]
            /\ pc' = "returned"
            /\ UNCHANGED <<pool, container, rows, i, trace, inflight, error,
                           presigned_urls, emitted, stdout, indexd, sheepdog, locals>>

\* add_index_and_metadata_azure(md5, size, name, url[, authz]), every service
\* answering: the record is created, both nodes are submitted and the
\* presigned URL is requested.
call_add_index_and_metadata_azure ==
    \E authz \in AuthzArgs, env \in EnvAuthz, did \in DIDs, submitter_id \in SubmitterIds,
       row \in {row_with_authz(commons_authz)} :
            /\ pc = "idle"
            /\ call' = [fn |-> "add_index_and_metadata_azure",
                        authz |-> authz,
                        env |-> env,
                        requests |->
                            <<[op |-> "is_healthy", req |-> <<>>],
                              [op |-> "create_record",
                               req |-> add_index_create_record_kwargs(
                                          row.md5, int(row.size), row.filename, row.urls,
                                          param(authz, INDEXD_AUTHZ(env)), commons_acl)],
                              [op |-> "submit_record",
                               req |-> _create_coremetadata_collection(submitter_id,
                                                                        PROJECT_CODE)],
                              [op |-> "submit_record",
                               req |-> _create_slide_image_json(
                                          NodeNames[1], submitter_id, row.filename, row.md5,
                                          int(row.size), file_extension(row.filename),
                                          DATA_TYPE, did)],
                              [op |-> "get_presigned_url",
                               req |-> api_url(COMMONS_URL, did, "az")]>>,
                        exc |-> NoExc,
                        ret |-> did]
            /\ pc' = "returned"
            /\ UNCHANGED <<pool, container, rows, i, trace, inflight, error,
                           presigned_urls, emitted, stdout, indexd, sheepdog, locals>>

\* What a caller can configure as connection string, account URL and
\* credential: nothing, the empty string, a value.
ConnectionStrings == {None, "", "UseDevelopmentStorage=true"}
AccountUrls == {None, "", "https://acct.blob.core.windows.net"}
Credentials == {None, "", "sas-token"}

\* A value Python takes as true in a condition (of None and strings).
truthy(v) == v # None /\ v # ""

\* get_blob_service_client with `or` in place of `and`.
get_blob_service_client_either(connection_string, account_url, credential) ==
    IF truthy(account_url) \/ truthy(credential)
    THEN [built_from |-> "account_url", account_url |-> account_url,
          credential |-> credential, conn_str |-> None]
    ELSE [built_from |-> "connection_string", account_url |-> None,
          credential |-> None, conn_str |-> connection_string]

\* AzureBlobStorageClient.get_blob_service_client: how the client is built.
get_blob_service_client(connection_string, account_url, credential) ==
    IF truthy(account_url) /\ truthy(credential)
    THEN [built_from |-> "account_url", account_url |-> account_url,
          credential |-> credential, conn_str |-> None]
    ELSE [built_from |-> "connection_string", account_url |-> None,
          credential |-> None, conn_str |-> connection_string]

\* AzureBlobStorageClient(connection_string, account_url=..., credential=...)
\* .get_blob_service_client()
call_get_blob_service_client ==
    \E connection_string \in ConnectionStrings, account_url \in AccountUrls,
       credential \in Credentials :
        /\ pc = "idle"
        /\ call' = [fn |-> "get_blob_service_client",
                    connection_string |-> connection_string,
                    account_url |-> account_url,
                    credential |-> credential,
                    exc |-> NoExc,
                    ret |-> get_blob_service_client(connection_string, account_url,
                                                    credential)]
        /\ pc' = "returned"
        /\ UNCHANGED <<pool, container, rows, i, trace, inflight, error, presigned_urls,
                       emitted, stdout, indexd, sheepdog, locals>>

\* The CLI context has no "endpoint" key.
NoKey == "NoKey"

CtxEndpoints == {NoKey, "https://other.commons.org"}

\* The FILE argument: left out, or a path.
FileArgs == {None, "meta.tsv"}

\* What the user types at click.prompt.
PromptAnswers == {"typed.tsv", "other.tsv"}

\* One call of publish_discovery_metadata; endpoint is NoKey when the call
\* leaves the endpoint to the default.
ingestion(file, endpoint, omit_empty) ==
    [op |-> "publish_discovery_metadata", file |-> file, endpoint |-> endpoint,
     omit_empty_values |-> omit_empty]

\* discovery_publish: the ingestions it runs, in order.  The call with the
\* endpoint is under `if "endpoint" in ctx.obj`; the call without it follows
\* the if and is made in either case.
discovery_publish(ctx_endpoint, file, use_default_file, omit_empty, prompted) ==
    LET f == IF (file = None \/ file = "") /\ ~use_default_file THEN prompted ELSE file
    IN  (IF ctx_endpoint # NoKey THEN <<ingestion(f, ctx_endpoint, omit_empty)>> ELSE <<>>)
            \o <<ingestion(f, NoKey, omit_empty)>>

\* One invocation of `discovery publish`.
call_discovery_publish ==
    \E ctx_endpoint \in CtxEndpoints, file \in FileArgs, use_default_file \in BOOLEAN,
       omit_empty \in BOOLEAN, prompted \in PromptAnswers :
        /\ pc = "idle"
        /\ call' = [fn |-> "discovery_publish",
                    ctx_endpoint |-> ctx_endpoint,
                    file |-> file,
                    use_default_file |-> use_default_file,
                    omit_empty |-> omit_empty,
                    requests |-> discovery_publish(ctx_endpoint, file, use_default_file,
                                                   omit_empty, prompted),
                    exc |-> NoExc]
        /\ pc' = "returned"
        /\ UNCHANGED <<pool, container, rows, i, trace, inflight, error, presigned_urls,
                       emitted, stdout, indexd, sheepdog, locals>>

NextCalls ==
    \/ call_Gen3File_get_presigned_url
    \/ call_Gen3Hash_get_hashes
    \/ call_create_index_azure
    \/ call_index_files_in_blob_storage
    \/ call_add_index_and_metadata_azure
    \/ call_get_blob_service_client
    \/ call_discovery_publish

SpecCalls == InitCalls /\ [][NextCalls]_vars

\* ------------------------------------------------------------ worker pool
\*
\* Gen3Hash.get_hashes at the level of the pool's threads: pool.map hands the
\* names out as tasks, one name per task for lists this short, the worker
\* threads run get_hash on them step by step in any interleaving, and the
\* call returns when every task has reported.

\* os.cpu_count() is at most MaxWorkers.
MaxWorkers == 2

\* Files of each length up to MaxFileLen, the bytes alternating 1, 0.
PoolContents == {[k \in 1..n |-> k % 2] : n \in 0..MaxFileLen}

\* A worker thread between two tasks.
IdleWorker == [task |-> 0, at |-> "idle", hash |-> <<>>, f |-> 0]

\* The slot of a result that has not been reported yet.
Pending == [type |-> "pending"]

\* ThreadPool(number_of_workers) and the MapResult of pool.map over
\* hash_types: no task handed out, no result reported.
ThreadPool(content, hash_types, number_of_workers) ==
    [size |-> number_of_workers,
     content |-> content,
     hash_types |-> hash_types,
     next |-> 1,
     workers |-> [w \in 1..number_of_workers |-> IdleWorker],
     files |-> [h \in 1..number_of_workers |-> 0],
     value |-> [k \in 1..Len(hash_types) |-> Pending],
     success |-> TRUE,
     raised_by |-> 0,
     number_left |-> Len(hash_types),
     log |-> <<>>,
     overlap |-> FALSE]

InitPool ==
    /\ container = <<>>
    /\ rows = <<>>
    /\ pc = "pool"
    /\ i = 0
    /\ trace = <<>>
    /\ inflight = {}
    /\ error = NoExc
    /\ presigned_urls = <<>>
    /\ emitted = <<>>
    /\ stdout = <<>>
    /\ indexd = {}
    /\ sheepdog = <<>>
    /\ locals = NoLocals
    /\ call = NoCall
    /\ \E content \in PoolContents, hash_types \in SeqsUpTo(HashTypes, MaxHashTypes),
          number_of_workers \in 1..MaxWorkers :
            pool = ThreadPool(content, hash_types, number_of_workers)

\* The frame of a step of the pool.
PoolFrame ==
    UNCHANGED <<call, pc, container, rows, i, trace, inflight, error, presigned_urls,
                emitted, stdout, indexd, sheepdog, locals>>

\* A task reporting to the MapResult: a result is stored in the slot of its
\* task while no task has failed, the first failure reported is the one kept,
\* and the count of outstanding tasks drops.
MapResult_set(p, k, success, result) ==
    [p EXCEPT !.number_left = @ - 1,
              !.value = IF success /\ p.success THEN [@ EXCEPT ![k] = result] ELSE @,
              !.success = @ /\ success,
              !.raised_by = IF ~success /\ p.success THEN k ELSE @]

\* Worker w ends its task, reporting to the MapResult, and is idle again.
TaskDone(p, w, success, result) ==
    [MapResult_set(p, p.workers[w].task, success, result)
        EXCEPT !.workers[w] = IdleWorker]

\* The file object open() gives worker w under a shared handle: one object
\* for the whole pool.
open_file_shared(w) == 1

\* The file object `open(self.file_path, "rb")` gives the get_hash call that
\* worker w is running: a new object for each call, named after the worker,
\* which holds one at a time.
open_file(w) == w

\* An idle worker takes the next task off the queue, in the order of the
\* names.
worker_get_task ==
    \E w \in 1..pool.size :
        /\ pc = "pool"
        /\ pool.workers[w].at = "idle"
        /\ pool.next <= Len(pool.hash_types)
        /\ pool' = [pool EXCEPT !.workers[w] = [IdleWorker EXCEPT !.task = pool.next,
                                                                  !.at = "getattr"],
                                !.next = @ + 1]
        /\ PoolFrame

\* `hash = getattr(hashlib, hash_type)()`: a name hashlib does not have is
\* logged and the task returns None; an attribute that is no hash
\* constructor raises TypeError; otherwise the worker holds a new hash object.
get_hash_getattr ==
    \E w \in 1..pool.size :
        LET hash_type == pool.hash_types[pool.workers[w].task]
        IN  /\ pc = "pool"
            /\ pool.workers[w].at = "getattr"
            /\ pool' =
                IF hash_type \notin hashlib_fixed \cup hashlib_xof \cup hashlib_other
                THEN [TaskDone(pool, w, TRUE, NoneValue)
                        EXCEPT !.log = Append(@, hash_type)]
                ELSE IF hash_type \in hashlib_other
                THEN TaskDone(pool, w, FALSE, NoneValue)
                ELSE [pool EXCEPT !.workers[w].hash = <<>>, !.workers[w].at = "open"]
            /\ PoolFrame

\* `with open(self.file_path, "rb") as f`: the worker holds a file object
\* positioned at the start of the file.
get_hash_open ==
    \E w \in 1..pool.size :
        /\ pc = "pool"
        /\ pool.workers[w].at = "open"
        /\ pool' = [pool EXCEPT !.workers[w].f = open_file(w),
                                !.workers[w].at = "readinto",
                                !.files[open_file(w)] = 0]
        /\ PoolFrame

\* Another worker has read part of the file through a file object it still
\* holds.
OthersMidFile(w) ==
    \E v \in (1..pool.size) \ {w} :
        /\ pool.workers[v].at = "readinto"
        /\ pool.files[pool.workers[v].f] > 0

\* One turn of the loop: readinto fills a chunk from the worker's file
\* object, which advances, and the chunk is fed to the worker's hash object;
\* at the end of the file the loop is left.
get_hash_readinto ==
    \E w \in 1..pool.size :
        LET f == pool.workers[w].f
            pos == pool.files[f]
            num == readinto(pool.content, pos)
        IN  /\ pc = "pool"
            /\ pool.workers[w].at = "readinto"
            /\ pool' =
                IF num = 0
                THEN [pool EXCEPT !.workers[w].at = "hexdigest"]
                ELSE [pool EXCEPT !.workers[w].hash =
                                        @ \o SubSeq(pool.content, pos + 1, pos + num),
                                  !.files[f] = pos + num,
                                  !.overlap = @ \/ OthersMidFile(w)]
            /\ PoolFrame

\* `return {hash_type: hash.hexdigest()}`: the digest of what the worker's
\* hash object was fed; hexdigest of an extendable-output hash raises
\* TypeError for its missing length.
get_hash_hexdigest ==
    \E w \in 1..pool.size :
        LET hash_type == pool.hash_types[pool.workers[w].task]
        IN  /\ pc = "pool"
            /\ pool.workers[w].at = "hexdigest"
            /\ pool' =
                IF hash_type \in hashlib_xof
                THEN TaskDone(pool, w, FALSE, NoneValue)
                ELSE TaskDone(pool, w, TRUE,
                              dict1(hash_type, hexdigest(hash_type, pool.workers[w].hash)))
            /\ PoolFrame

\* pool.map returns once every task has reported: the list of results, or
\* the exception of the first task that reported a failure.
pool_map_return ==
    /\ pc = "pool"
    /\ pool.number_left = 0
    /\ call' = [fn |-> "Gen3Hash.get_hashes",
                content |-> pool.content,
                hash_types |-> pool.hash_types,
                exc |-> IF pool.success THEN NoExc ELSE "TypeError",
                ret |-> IF pool.success THEN pool.value ELSE <<>>]
    /\ pc' = "returned"
    /\ UNCHANGED <<pool, container, rows, i, trace, inflight, error,
                   presigned_urls, emitted, stdout, indexd, sheepdog, locals>>

NextPool ==
    \/ worker_get_task
    \/ get_hash_getattr
    \/ get_hash_open
    \/ get_hash_readinto
    \/ get_hash_hexdigest
    \/ pool_map_return

SpecPool == InitPool /\ [][NextPool]_vars

\* ------------------------------------------------------------ claims

\* Positions in the trace of the calls of one operation.
Calls(op) == {k \in 1..Len(trace) : trace[k].op = op}

\* Positions in the trace of the calls of one operation made for record j.
CallsFor(op, j) == {k \in Calls(op) : trace[k].idx = j}

Terminal == pc \in {"done", "error"}

\* The stage each remote call belongs to: LISTING 1, REGISTERING 2,
\* ANNOTATING 3, RESOLVING 4.
StageRank(op) ==
    CASE op = "list_blobs" -> 1
      [] op \in {"is_healthy", "create_record"} -> 2
      [] op = "submit_record" -> 3
      [] op = "get_presigned_url" -> 4

\* A health probe of the index service has answered false.
ProbeFalse ==
    \E k \in Calls("is_healthy") : trace[k].status = "ok" /\ trace[k].val = "False"

\* Every call answered so far succeeded, every probe answering healthy.
AllSucceeded ==
    \A k \in 1..Len(trace) :
        /\ trace[k].status # "raise"
        /\ (trace[k].op = "is_healthy" /\ trace[k].status = "ok") => trace[k].val = "True"

\* The page link of a guid, "<COMMONS_URL>/files/<guid>".
PageLink(guid) == <<"https://mycommons.azurefd.net", "/files/", guid>>

\* The did the index service returned for record j.
DidReturnedFor(j) ==
    trace[CHOOSE k \in CallsFor("create_record", j) : trace[k].status = "ok"].val

\* C1: if a health probe of the index service answers false, no create_record,
\* no graph submission and no presigned-URL request is ever issued, and the
\* run ends reporting the service as unavailable, not with another error.
C1_UnhealthyAbortsBatch ==
    ProbeFalse =>
        /\ Calls("create_record") = {}
        /\ Calls("submit_record") = {}
        /\ Calls("get_presigned_url") = {}
        /\ Terminal =>
            /\ error \in {NoExc, "ServiceUnavailable"}
            /\ \E m \in 1..Len(stdout) : stdout[m] = UNHEALTHY_MESSAGE

\* C2: when create_record fails for record N only, record N gets no graph
\* submission and no presigned-URL request, and every other record is
\* registered, annotated and resolved by the end of the run.
C2_FailedRegistrationIsSkipped ==
    \A N \in 1..Len(rows) :
        ( /\ Terminal
          /\ \E k \in CallsFor("create_record", N) : trace[k].status = "raise"
          /\ \A k \in 1..Len(trace) :
                (trace[k].status = "raise") =>
                    (trace[k].op = "create_record" /\ trace[k].idx = N)
          /\ ~ProbeFalse )
        => /\ CallsFor("submit_record", N) = {}
           /\ CallsFor("get_presigned_url", N) = {}
           /\ \A j \in (1..Len(rows)) \ {N} :
                /\ rows[j].guid # None
                /\ CallsFor("submit_record", j) # {}
                /\ CallsFor("get_presigned_url", j) # {}

\* C3: a registration call whose create_record raised prints the diagnostic
\* and returns None to its caller; it raises no exception of its own.
C3_RegistrationFailureReturnsNone ==
    (\E k \in Calls("create_record") : trace[k].status = "raise") =>
        /\ \E m \in 1..Len(stdout) : stdout[m] = ERROR_MESSAGE
        /\ error # "UnboundLocalError"

\* C4: the remote calls of a run occur stage by stage, LISTING, REGISTERING,
\* ANNOTATING, RESOLVING, no stage being returned to; the listing is complete
\* before the first call to the index service; the URLs are emitted only at
\* the end; at most one remote call is in flight at any time.
C4_StagesInOrder ==
    /\ \A a \in 1..Len(trace) : \A b \in a..Len(trace) :
            StageRank(trace[a].op) <= StageRank(trace[b].op)
    /\ (\E k \in 1..Len(trace) : StageRank(trace[k].op) > 1) =>
            /\ Len(rows) = Len(container)
            /\ \E k \in Calls("list_blobs") : trace[k].val = "end"
    /\ emitted # <<>> => (pc = "done" /\ inflight = {} /\ Len(emitted) = 1)
    /\ Cardinality(inflight) <= 1

\* C4's case: a run over several blobs that went through all four stages.
C4_Witness ==
    /\ pc = "done"
    /\ Len(rows) >= 2
    /\ \A op \in {"list_blobs", "is_healthy", "create_record", "submit_record",
                  "get_presigned_url"} : Calls(op) # {}

C7_Scenario ==
    /\ Len(container) = 3
    /\ \A j \in 1..3 : \E k \in CallsFor("create_record", j) : trace[k].status = "ok"
    /\ \A k \in CallsFor("submit_record", 1) : trace[k].status = "ok"
    /\ Cardinality(CallsFor("submit_record", 1)) = 2
    /\ \E k \in CallsFor("submit_record", 2) : trace[k].status = "raise"

\* C7 as stated: in that scenario the run ends emitting the page links of
\* blobs 1 and 3 only.
C7_PartialOutput ==
    (C7_Scenario /\ Terminal) =>
        emitted = << <<PageLink(rows[1].guid), PageLink(rows[3].guid)>> >>

\* C7 as amended: in that scenario the run has ended with the submission's
\* error; blob 3 is never submitted, no presigned URL is requested and no
\* list of URLs is emitted.
C7_SubmissionFailureEndsRun ==
    C7_Scenario =>
        /\ pc = "error"
        /\ error = "HTTPError"
        /\ CallsFor("submit_record", 3) = {}
        /\ Calls("get_presigned_url") = {}
        /\ presigned_urls = <<>>
        /\ emitted = <<>>

\* C7's case: the scenario, with the data-node submission of blob 2 failing.
C7_Witness ==
    /\ C7_Scenario
    /\ Cardinality(CallsFor("submit_record", 2)) = 2

\* The bytes a hexadecimal numeral stands for.
HexValue(c) == CHOOSE d \in 0..15 : HexChars[d + 1] = c

RECURSIVE bytes_fromhex(_)
bytes_fromhex(h) ==
    IF Len(h) < 2 THEN <<>>
    ELSE <<16 * HexValue(h[1]) + HexValue(h[2])>> \o bytes_fromhex(SubSeq(h, 3, Len(h)))

\* "https://acct/container/blob/file.txt" with the scheme "az".
ExampleConverted ==
    <<"a", "z", ":", "/", "/", "a", "c", "c", "t", "/", "c", "o", "n", "t", "a", "i",
      "n", "e", "r", "/", "b", "l", "o", "b", "/", "f", "i", "l", "e", ".", "t", "x", "t">>

\* C8: prepare_blob_index_metadata yields one record per blob, in order, with
\* a null guid, the blob's size and hash, and the blob's URL with nothing but
\* the scheme changed (what follows "https" is kept character for character).
C8_NormalizerOnlyRewritesScheme ==
    pc = "normalized" =>
        /\ Len(rows) = Len(container)
        /\ \A k \in 1..Len(rows) :
            LET native == container_url \o <<"/">> \o container[k].name
            IN  /\ rows[k].guid = None
                /\ rows[k].filename = container[k].name
                /\ int(rows[k].size) = container[k].size
                /\ bytes_fromhex(rows[k].md5) = container[k].content_md5
                /\ rows[k].urls = <<"a", "z">> \o Slice(native, 6, Len(native))
                /\ container[k].name = ExampleName => rows[k].urls = ExampleConverted

\* The run is at a position where its next step is defined: before its
\* loops, or inside a loop at one of the records.
StepDefined ==
    \/ pc \in {"start", "list", "list_wait"}
    \/ /\ pc \in {"index", "healthy_wait", "create", "create_wait", "graph",
                  "core_wait", "data", "data_wait", "presign", "presign_wait"}
       /\ i \in 1..Len(rows)

\* C9: a run in which every remote call succeeds ends in DONE and emits one
\* page link per blob, in listing order, the j-th built from the did the
\* index service returned for the j-th blob.  The run is finite: it makes at
\* most one listing call per blob and one more, and five calls per record
\* after that, and until it has ended its next step is defined.
C9_AllSucceedEmitsAllLinks ==
    /\ (Terminal /\ AllSucceeded) =>
            /\ pc = "done"
            /\ Len(emitted) = 1
            /\ Len(emitted[1]) = Len(container)
            /\ \A j \in 1..Len(container) : emitted[1][j] = PageLink(DidReturnedFor(j))
    /\ Len(trace) <= 6 * Len(container) + 1
    /\ ~Terminal => StepDefined

\* C9's case: a run over several blobs ended with every call succeeding.
C9_Witness ==
    /\ pc = "done"
    /\ AllSucceeded
    /\ Len(container) >= 2

\* C10: get_presigned_url makes one request to the broker per call and
\* returns the page link of the guid whatever the broker answered; when the
\* request raises, the error ends the run and no link is returned.
C10_PageLinkIgnoresBrokerAnswer ==
    /\ \A k \in Calls("get_presigned_url") :
        LET j == trace[k].idx
        IN  /\ Cardinality(CallsFor("get_presigned_url", j)) = 1
            /\ trace[k].status = "ok" =>
                    /\ Len(presigned_urls) >= j
                    /\ presigned_urls[j] = PageLink(trace[k].req.guid)
            /\ trace[k].status = "raise" =>
                    /\ pc = "error"
                    /\ error = "ConnectionError"
                    /\ Len(presigned_urls) = j - 1
            /\ trace[k].status = "pending" => Len(presigned_urls) = j - 1
    /\ Len(presigned_urls) <= Cardinality(Calls("get_presigned_url"))

\* C10's case: the broker answered with a signed URL and with an error page
\* in the same run, and a link was returned for both.
C10_Witness ==
    /\ \E k \in Calls("get_presigned_url") : trace[k].val = "{url}"
    /\ \E k \in Calls("get_presigned_url") : trace[k].val = "error page"
    /\ Len(presigned_urls) >= 2

\* C11: Gen3File.get_presigned_url returns the parsed JSON value when the
\* broker's body is JSON and the body itself when it is not, never raising;
\* it makes one request, whose URL carries the protocol query parameter
\* exactly when a non-empty protocol was given.
C11_JsonOrRawText ==
    call.fn = "Gen3File.get_presigned_url" =>
        /\ call.exc = NoExc
        /\ call.output.is_json => call.ret = call.output.data
        /\ ~call.output.is_json => call.ret = call.output.text
        /\ Len(call.requests) = 1
        /\ SubSeq(call.requests[1], 1, 3) = <<COMMONS_URL, "/user/data/download/", call.guid>>
        /\ IF call.protocol \in {None, ""}
           THEN Len(call.requests[1]) = 3
           ELSE call.requests[1] =
                    <<COMMONS_URL, "/user/data/download/", call.guid, "?protocol=",
                      call.protocol>>

\* C11's case: a call without a protocol answered with text that is not JSON.
C11_Witness ==
    /\ call.fn = "Gen3File.get_presigned_url"
    /\ call.protocol = None
    /\ call.output.text = "error page"
    /\ call.ret = "error page"

\* Algorithms hashlib supports, and the digest of each over a whole file.
SupportedHashTypes == {"md5", "sha256", "shake_128"}

\* C12: get_hashes returns, in a call that does not raise, one entry per
\* requested name: for a supported name the digest of the file's full content
\* under that name, for an unsupported name None, whatever other names were
\* requested with it.
C12_UnsupportedNameIsNullForThatNameOnly ==
    call.fn = "Gen3Hash.get_hashes" =>
        /\ call.exc = NoExc
        /\ Len(call.ret) = Len(call.hash_types)
        /\ \A k \in 1..Len(call.hash_types) :
            IF call.hash_types[k] \in SupportedHashTypes
            THEN call.ret[k] =
                    dict1(call.hash_types[k], hexdigest(call.hash_types[k], call.content))
            ELSE call.ret[k] = NoneValue

\* The authz a registration call was given is empty or was left out: the
\* argument is None or the empty string, or it was omitted and the
\* environment supplies none or an empty one.
AuthzEmptyOrOmitted ==
    \/ call.authz \in {None, ""}
    \/ call.authz = Omitted /\ call.env \in {Unset, ""}

\* C13: a registration whose authz is empty or omitted sends a create_record
\* request without an authz field, in create_index_azure, in the pipeline's
\* index_files_in_blob_storage and in add_index_and_metadata_azure.
C13_EmptyAuthzIsOmitted ==
    ( /\ call.fn \in {"create_index_azure", "index_files_in_blob_storage",
                      "add_index_and_metadata_azure"}
      /\ AuthzEmptyOrOmitted )
    => \A k \in 1..Len(call.requests) :
            call.requests[k].op = "create_record" =>
                "authz" \notin DOMAIN call.requests[k].req

\* C14: get_blob_service_client builds the client from the account URL and
\* the credential when both are supplied, a connection string being
\* configured or not, and from the connection string in every other case.
C14_AccountUrlPreferred ==
    call.fn = "get_blob_service_client" =>
        LET both == /\ call.account_url \notin {None, ""}
                    /\ call.credential \notin {None, ""}
        IN  /\ both =>
                /\ call.ret.built_from = "account_url"
                /\ call.ret.account_url = call.account_url
                /\ call.ret.credential = call.credential
            /\ ~both =>
                /\ call.ret.built_from = "connection_string"
                /\ call.ret.conn_str = call.connection_string

\* C14's case: account URL and credential supplied with a connection string
\* configured too.
C14_Witness ==
    /\ call.fn = "get_blob_service_client"
    /\ call.connection_string = "UseDevelopmentStorage=true"
    /\ call.account_url = "https://acct.blob.core.windows.net"
    /\ call.credential = "sas-token"
    /\ call.ret.built_from = "account_url"

\* C15: one invocation of `discovery publish` runs exactly one ingestion,
\* with or without an endpoint in the CLI context; with one, the ingestion
\* targets that endpoint.
C15_PublishIngestsOnce ==
    call.fn = "discovery_publish" =>
        /\ Len(call.requests) = 1
        /\ call.ctx_endpoint # NoKey => call.requests[1].endpoint = call.ctx_endpoint

\* The submissions of one type made for record j.
SubmissionsFor(type, j) ==
    {k \in CallsFor("submit_record", j) : trace[k].req.type = type}

\* C16: for each record the core_metadata_collection node is submitted
\* before the slide_image node, each once; the slide_image node refers to
\* the id the first submission returned, carries the record's guid as
\* object_id and the same submitter token as the first node; when the first
\* submission fails no slide_image node is submitted.
C16_CoreNodeBeforeDataNode ==
    \A j \in 1..Len(rows) :
        /\ Cardinality(SubmissionsFor("core_metadata_collection", j)) <= 1
        /\ Cardinality(SubmissionsFor("slide_image", j)) <= 1
        /\ \A d \in SubmissionsFor("slide_image", j) :
            \E c \in SubmissionsFor("core_metadata_collection", j) :
                /\ c < d
                /\ trace[c].status = "ok"
                /\ trace[d].req.core_metadata_collections.node_id = trace[c].val
                /\ trace[d].req.core_metadata_collections.submitter_id =
                        trace[c].req.submitter_id
                /\ trace[d].req.submitter_id = trace[c].req.submitter_id
                /\ trace[d].req.object_id = rows[j].guid
                /\ trace[d].req.object_id = DidReturnedFor(j)
        /\ \A c \in SubmissionsFor("core_metadata_collection", j) :
            trace[c].status = "raise" => SubmissionsFor("slide_image", j) = {}

\* C16's cases: both nodes of a record were submitted, and the first
\* submission of a later record failed.
C16_Witness ==
    /\ \E d \in SubmissionsFor("slide_image", 1) : trace[d].status = "ok"
    /\ \E c \in SubmissionsFor("core_metadata_collection", 2) : trace[c].status = "raise"

\* The ids of the nodes the graph service holds, and the dids of the records
\* the index service holds.
NodeIds == {sheepdog[n].id : n \in 1..Len(sheepdog)}

IndexedDids == {r.did : r \in indexd}

\* C17: when the slide_image submission fails after the
\* core_metadata_collection submission succeeded, the error ends the run and
\* no further call is made, a delete included: the core_metadata_collection
\* node stays on the graph service with no node referring to it, the index
\* record of that object stays, and so does everything committed for earlier
\* objects.
C17_NoRollback ==
    \A d \in Calls("submit_record") :
        (trace[d].req.type = "slide_image" /\ trace[d].status = "raise") =>
            LET core_id == trace[d].req.core_metadata_collections.node_id
            IN  /\ pc = "error"
                /\ error = trace[d].val
                /\ d = Len(trace)
                /\ \E n \in 1..Len(sheepdog) :
                        /\ sheepdog[n].id = core_id
                        /\ sheepdog[n].node.type = "core_metadata_collection"
                /\ \A n \in 1..Len(sheepdog) :
                        sheepdog[n].node.type = "slide_image" =>
                            sheepdog[n].node.core_metadata_collections.node_id # core_id
                /\ trace[d].req.object_id \in IndexedDids
                /\ \A k \in 1..Len(trace) :
                        trace[k].status = "ok" =>
                            /\ trace[k].op = "create_record" => trace[k].val \in IndexedDids
                            /\ trace[k].op = "submit_record" => trace[k].val \in NodeIds

\* C17's case: the slide_image submission of the second object failed after
\* the first object was submitted in full.
C17_Witness ==
    /\ \E d \in SubmissionsFor("slide_image", 2) : trace[d].status = "raise"
    /\ \E d \in SubmissionsFor("slide_image", 1) : trace[d].status = "ok"

\* The nodes of one type the graph service holds.
NodesOfType(type) == {n \in 1..Len(sheepdog) : sheepdog[n].node.type = type}

\* C18: two calls of submit_metadata_sheepdog with the same file name, hash,
\* size and guid, both returning, issue two core_metadata_collection and two
\* slide_image submissions; the graph service then holds two
\* core_metadata_collection nodes with distinct ids and two slide_image nodes
\* of the same guid, the second referring to the second
\* core_metadata_collection node: nothing of the first call is reused.
C18_ResubmissionDuplicates ==
    (Len(rows) = 2 /\ rows[1] = rows[2] /\ pc = "presign") =>
        /\ Cardinality(SubmissionsFor("core_metadata_collection", 1)) = 1
        /\ Cardinality(SubmissionsFor("core_metadata_collection", 2)) = 1
        /\ Cardinality(SubmissionsFor("slide_image", 1)) = 1
        /\ Cardinality(SubmissionsFor("slide_image", 2)) = 1
        /\ Cardinality(NodesOfType("core_metadata_collection")) = 2
        /\ Cardinality({sheepdog[n].id : n \in NodesOfType("core_metadata_collection")}) = 2
        /\ Cardinality(NodesOfType("slide_image")) = 2
        /\ \A n \in NodesOfType("slide_image") : sheepdog[n].node.object_id = rows[1].guid
        /\ \A d \in SubmissionsFor("slide_image", 2) :
            \A c \in SubmissionsFor("core_metadata_collection", 1) :
                trace[d].req.core_metadata_collections.node_id # trace[c].val

\* C18's case: both calls returned, each having drawn its own submitter token.
C18_Witness ==
    /\ Len(rows) = 2
    /\ rows[1] = rows[2]
    /\ pc = "presign"
    /\ \A c \in CallsFor("submit_record", 1) : trace[c].req.submitter_id = "tokA"
    /\ \A c \in CallsFor("submit_record", 2) : trace[c].req.submitter_id = "tokB"

\* The REGISTERING stage is over and the run went on.
RegisteringDone ==
    \/ pc \in {"graph", "core_wait", "data", "data_wait", "presign", "presign_wait", "done"}
    \/ \E k \in 1..Len(trace) : StageRank(trace[k].op) > 2

\* C19: create_record is requested for the records one at a time in listing
\* order, at most once per record and with that record's fields; a record's
\* guid is the did returned to its own request and to no other; once the
\* stage is over every record has had exactly one request and holds its did.
C19_GuidIsOwnDid ==
    /\ \A k \in Calls("create_record") :
        /\ trace[k].idx = Cardinality({l \in Calls("create_record") : l <= k})
        /\ trace[k].req.file_name = rows[trace[k].idx].filename
        /\ trace[k].req.urls = <<rows[trace[k].idx].urls>>
        /\ trace[k].req.hashes.md5 = rows[trace[k].idx].md5
        /\ trace[k].status = "ok" => rows[trace[k].idx].guid = trace[k].val
    /\ \A j \in 1..Len(rows) :
        rows[j].guid # None =>
            /\ \E k \in CallsFor("create_record", j) :
                    trace[k].status = "ok" /\ trace[k].val = rows[j].guid
            /\ \A k \in Calls("create_record") :
                    (trace[k].status = "ok" /\ trace[k].idx # j) =>
                        trace[k].val # rows[j].guid
    /\ RegisteringDone =>
        \A j \in 1..Len(rows) :
            /\ Cardinality(CallsFor("create_record", j)) = 1
            /\ rows[j].guid # None

\* C19's case: three records were registered and the run went on.
C19_Witness ==
    /\ pc = "graph"
    /\ Len(rows) = 3
    /\ \A j \in 1..3 : rows[j].guid # None

\* A step of the run after LISTING keeps the number and order of the records
\* and every field of every record but guid; guid changes only in
\* REGISTERING and only from null.
RecordsFrame ==
    pc \notin {"start", "list", "list_wait"} =>
        /\ Len(rows') = Len(rows)
        /\ \A j \in 1..Len(rows) :
            /\ rows'[j].md5 = rows[j].md5
            /\ rows'[j].size = rows[j].size
            /\ rows'[j].authz = rows[j].authz
            /\ rows'[j].acl = rows[j].acl
            /\ rows'[j].urls = rows[j].urls
            /\ rows'[j].filename = rows[j].filename
            /\ rows[j].guid # None => rows'[j].guid = rows[j].guid
            /\ rows'[j].guid # rows[j].guid => pc \in {"healthy_wait", "create_wait"}

\* C20: after LISTING the only field of a record that changes is guid, which
\* is written only in REGISTERING, at most once, from null; the other fields
\* and the number and order of the records never change.
C20_OnlyGuidChanges == [][RecordsFrame]_vars

\* C20's case: the run reached RESOLVING with the guids of several records
\* written.
C20_Witness ==
    /\ pc = "presign_wait"
    /\ Len(rows) >= 2
    /\ \A j \in 1..Len(rows) : rows[j].guid # None

\* get_hash of one name computed alone raises.
RaisesAlone(hash_type) == get_hash(pool.content, hash_type).exc # NoExc

\* The tasks of the pool that reported and those a worker is running.
Running == {pool.workers[w].task : w \in 1..pool.size} \ {0}

\* C21: in every interleaving of the worker threads each worker reads the
\* file through its own file object into its own hash object, so what a hash
\* object was fed is the file up to that worker's own position; every result
\* reported is the one get_hash gives for that name alone; and a call that
\* returns gives one result per requested name, the k-th being that of the
\* k-th name computed alone.  A call returns when no name makes get_hash
\* raise, and raises the TypeError of one of those names otherwise.
C21_ResultsInOrderForEveryInterleaving ==
    pool.size > 0 =>
        /\ \A w \in 1..pool.size :
            pool.workers[w].at \in {"readinto", "hexdigest"} =>
                /\ pool.workers[w].hash =
                        SubSeq(pool.content, 1, pool.files[pool.workers[w].f])
                /\ \A v \in (1..pool.size) \ {w} :
                    /\ pool.workers[v].task # pool.workers[w].task
                    /\ pool.workers[v].at \in {"readinto", "hexdigest"} =>
                            pool.workers[v].f # pool.workers[w].f
        /\ \A k \in 1..Len(pool.hash_types) :
            pool.value[k] # Pending =>
                /\ pool.value[k] = get_hash(pool.content, pool.hash_types[k]).ret
                /\ k \notin Running
        /\ pool.number_left + pool.next - 1 - Cardinality(Running) = Len(pool.hash_types)
        /\ pc = "returned" =>
            IF \E k \in 1..Len(pool.hash_types) : RaisesAlone(pool.hash_types[k])
            THEN /\ call.exc = "TypeError"
                 /\ pool.raised_by \in 1..Len(pool.hash_types)
                 /\ RaisesAlone(pool.hash_types[pool.raised_by])
            ELSE /\ call.exc = NoExc
                 /\ Len(call.ret) = Len(pool.hash_types)
                 /\ \A k \in 1..Len(pool.hash_types) :
                        call.ret[k] = get_hash(pool.content, pool.hash_types[k]).ret
                 /\ call.ret = get_hashes(pool.content, pool.hash_types).ret

\* C21's case: two digests of a file of several chunks were requested, two
\* workers read the file at the same time, and the call returned.
C21_Witness ==
    /\ pc = "returned"
    /\ pool.size >= 2
    /\ pool.hash_types = <<"sha256", "md5">>
    /\ Len(pool.content) > CHUNK_SIZE
    /\ pool.overlap
    /\ call.exc = NoExc
    /\ call.ret = <<dict1("sha256", hexdigest("sha256", pool.content)),
                    dict1("md5", hexdigest("md5", pool.content))>>

====
